---- MODULE Spec2Model ----
(***************************************************************************)
(* Model of the Postgres connection matcher of caddy-l4, package           *)
(* l4postgres.  The repository carries two implementations of              *)
(* MatchPostgres.Match:                                                    *)
(*   - src/unnamed/part_000: bounds-checked framing, sticky-error cursor   *)
(*     (impl = "checked");                                                 *)
(*   - src/modules/l4postgres/matcher.go: pooled header buffer, unchecked  *)
(*     cursor (impl = "pooled").                                           *)
(* One behaviour of the model is one call of Match on one stream.          *)
(*                                                                         *)
(* A uint32 is the pair <<hi, lo>> of its 16-bit halves, so that the full  *)
(* 32-bit range and its wrap-around are represented exactly.  Cursor       *)
(* offsets are plain integers: they never exceed len(data) + 1.            *)
(* Go slices are 0-based, sequences 1-based: Go data[i] is data[i + 1].    *)
(***************************************************************************)
EXTENDS Integers, Sequences, FiniteSets, TLC

VARIABLES impl, stream, streamEnd, consumed, requests, allocs, pc, head,
          payloadLen, b, Parameters, headerPool, ret,
          accessed,   \* the indices of b.data the call has read (0-based)
          trace,      \* the calls a cursor driver has made, with their results
          goroutines, \* the concurrent Match calls of matcher.go
          buffers     \* the header buffers and the pool they share

vars == <<impl, stream, streamEnd, consumed, requests, allocs, pc, head,
          payloadLen, b, Parameters, headerPool, ret, accessed, trace,
          goroutines, buffers>>

(* ------------------------------ bounds --------------------------------- *)

\* longest parameter area (the bytes after the 4-byte code) of a stream
MaxParamBytes == 7

\* most calls a cursor driver makes on one cursor
MaxCalls == 4

\* concurrent calls of Match
NumGoroutines == 2

(* ---------------------------- constants -------------------------------- *)

sslRequestCode == 80877103

initMessageSizeLength == 4

minMessageLength == 8

minStartupPayloadLength == 5

maxStartupPayloadSize == 16384

(* ------------------------- uint32 arithmetic --------------------------- *)

Half == 256 * 256

\* the uint32 of a small natural number
U32(n) == <<n \div Half, n % Half>>

\* v is below 2^31, so that its value is an integer TLC can hold
U32Small(v) == v[1] < 32768

U32Val(v) == v[1] * Half + v[2]

\* v < n, v > n, v = n for a natural n < 2^31
U32Lt(v, n) == U32Small(v) /\ U32Val(v) < n

U32Gt(v, n) == ~U32Small(v) \/ U32Val(v) > n

U32Eq(v, n) == U32Small(v) /\ U32Val(v) = n

\* the length field taken as the payload length: nothing subtracted
U32SubNothing(v, n) == v

\* v - n in uint32 arithmetic (wraps below zero), for 0 <= n < 65536
U32Sub(v, n) ==
    IF v[2] >= n THEN <<v[1], v[2] - n>>
    ELSE <<(v[1] + Half - 1) % Half, v[2] + Half - n>>

\* the bytes decoded in little-endian order
Uint32LittleEndian(bytes) == <<bytes[4] * 256 + bytes[3], bytes[2] * 256 + bytes[1]>>

\* binary.BigEndian.Uint32
Uint32(bytes) == <<bytes[1] * 256 + bytes[2], bytes[3] * 256 + bytes[4]>>

\* binary.Write(..., binary.BigEndian, v) / binary.BigEndian.PutUint32
PutUint32(v) == <<v[1] \div 256, v[1] % 256, v[2] \div 256, v[2] % 256>>

(* ------------------------------ errors --------------------------------- *)

NilErr == [msg |-> "", cause |-> "nil"]

\* fmt.Errorf(msg + ": %w", cause)
Errorf(msg, cause) == [msg |-> msg, cause |-> cause]

\* errors.Is(err, io.EOF) || errors.Is(err, io.ErrUnexpectedEOF)
IsEOF(cause) == cause \in {"EOF", "ErrUnexpectedEOF"}

(* ------------------------------ stream --------------------------------- *)

\* io.ReadFull(cx, buf) with len(buf) = n (a uint32) on the stream s that
\* ends with e and has delivered c bytes: the bytes delivered, their count
\* and the error.  A zero-length buffer issues no read.
ReadFullFrom(s, e, c, n) ==
    LET avail == Len(s) - c IN
    IF U32Eq(n, 0) THEN [n |-> 0, err |-> "nil", bytes |-> <<>>]
    ELSE IF U32Small(n) /\ U32Val(n) <= avail
    THEN [n |-> U32Val(n), err |-> "nil",
          bytes |-> SubSeq(s, c + 1, c + U32Val(n))]
    ELSE [n |-> avail,
          err |-> IF e = "EOF" /\ avail > 0 THEN "ErrUnexpectedEOF" ELSE e,
          bytes |-> SubSeq(s, c + 1, Len(s))]

\* io.ReadFull on the stream of the call
ReadFull(n) == ReadFullFrom(stream, streamEnd, consumed, n)

\* no header buffer exists
NoBuffers == [pool |-> <<>>, content |-> <<>>]

(* ------------------------------ cursor --------------------------------- *)

\* newMessageFromBytes / &message{data: data}
newMessageFromBytes(data) ==
    [data |-> data, offset |-> 0, err |-> "nil", lastReadStringStartOffset |-> 0]

NoMessage == newMessageFromBytes(<<>>)

\* the loop "for ; end < maximum && data[end] != 0; end++ {}" from start
ScanNull(data, start, maximum) ==
    LET S == {e \in start..maximum : e = maximum \/ data[e + 1] = 0}
    IN CHOOSE e \in S : \A f \in S : e <= f

\* part_000 message.ReadUint32: the cursor after the call and the result
ReadUint32(m) ==
    IF m.err # "nil" THEN [b |-> m, r |-> U32(0), acc |-> {}]
    ELSE IF m.offset + 4 > Len(m.data)
    THEN [b |-> [m EXCEPT !.err = "readUint32: unexpected EOF"], r |-> U32(0),
          acc |-> {}]
    ELSE [b |-> [m EXCEPT !.offset = m.offset + 4],
          r |-> Uint32(SubSeq(m.data, m.offset + 1, m.offset + 4)),
          acc |-> m.offset..(m.offset + 3)]

\* ReadString without the "if b.err != nil" guard at its top
ReadStringNotSticky(m) ==
    LET m1 == [m EXCEPT !.lastReadStringStartOffset = m.offset]
        start == m.offset
        maximum == Len(m.data)
    IN
    IF start >= maximum
    THEN IF start = maximum
         THEN [b |-> [m1 EXCEPT !.err = "nil"], r |-> <<>>, acc |-> {}]
         ELSE [b |-> [m1 EXCEPT !.err = "readString: offset past buffer length"],
               r |-> <<>>, acc |-> {}]
    ELSE
      LET end == ScanNull(m.data, start, maximum) IN
      IF end = maximum
      THEN [b |-> [m1 EXCEPT !.err = "readString: missing null terminator",
                             !.offset = maximum],
            r |-> SubSeq(m.data, start + 1, maximum),
            acc |-> start..(maximum - 1)]
      ELSE [b |-> [m1 EXCEPT !.offset = end + 1],
            r |-> SubSeq(m.data, start + 1, end),
            acc |-> start..end]

\* part_000 message.ReadString
ReadString(m) ==
    IF m.err # "nil" THEN [b |-> m, r |-> <<>>, acc |-> {}]
    ELSE
      LET m1 == [m EXCEPT !.lastReadStringStartOffset = m.offset]
          start == m.offset
          maximum == Len(m.data)
      IN
      IF start >= maximum
      THEN IF start = maximum
           THEN [b |-> [m1 EXCEPT !.err = "nil"], r |-> <<>>, acc |-> {}]
           ELSE [b |-> [m1 EXCEPT !.err = "readString: offset past buffer length"],
                 r |-> <<>>, acc |-> {}]
      ELSE
        LET end == ScanNull(m.data, start, maximum) IN
        IF end = maximum
        THEN [b |-> [m1 EXCEPT !.err = "readString: missing null terminator",
                               !.offset = maximum],
              r |-> SubSeq(m.data, start + 1, maximum),
              acc |-> start..(maximum - 1)]
        ELSE [b |-> [m1 EXCEPT !.offset = end + 1],
              r |-> SubSeq(m.data, start + 1, end),
              acc |-> start..end]

\* matcher.go message.ReadUint32: no bounds check, the slice expression
\* panics when fewer than 4 bytes remain
PooledReadUint32(m) ==
    IF m.offset + 4 > Len(m.data)
    THEN [b |-> m, r |-> U32(0), panic |-> TRUE, acc |-> m.offset..(m.offset + 3)]
    ELSE [b |-> [m EXCEPT !.offset = m.offset + 4],
          r |-> Uint32(SubSeq(m.data, m.offset + 1, m.offset + 4)),
          panic |-> FALSE, acc |-> m.offset..(m.offset + 3)]

\* matcher.go message.ReadString: "end != maximum" lets an offset beyond the
\* buffer index data[end] out of range, which panics
PooledReadString(m) ==
    LET maximum == Len(m.data) IN
    IF m.offset > maximum
    THEN [b |-> m, r |-> <<>>, panic |-> TRUE, acc |-> {m.offset}]
    ELSE LET end == ScanNull(m.data, m.offset, maximum) IN
         [b |-> [m EXCEPT !.offset = end + 1],
          r |-> SubSeq(m.data, m.offset + 1, end),
          panic |-> FALSE,
          acc |-> m.offset..(IF end = maximum THEN maximum - 1 ELSE end)]

(* ------------------------------ inputs --------------------------------- *)

ParamByte == {0, 97}

RECURSIVE SeqsUpTo(_, _)
SeqsUpTo(S, n) ==
    IF n = 0 THEN {<<>>}
    ELSE LET shorter == SeqsUpTo(S, n - 1)
         IN shorter \cup {Append(s, x) : s \in shorter, x \in S}

\* declared lengths: every small one, the cap and its neighbours, the top of
\* the range, and the bytes "GET " of another protocol
LengthValues ==
    {U32(n) : n \in 0..(minMessageLength + MaxParamBytes + 2)}
        \cup {U32(maxStartupPayloadSize + 4), U32(maxStartupPayloadSize + 5),
              <<65535, 65535>>, <<18245, 21536>>}

\* first payload word: the SSLRequest code, versions 3.0, 3.1, 2.0 and 0
CodeValues == {<<1234, 5679>>, <<3, 0>>, <<3, 1>>, <<2, 0>>, <<0, 0>>}

Frames ==
    {PutUint32(L) \o PutUint32(c) \o p :
        L \in LengthValues, c \in CodeValues, p \in SeqsUpTo(ParamByte, MaxParamBytes)}

\* every frame and every truncation of it
Streams == UNION {{SubSeq(f, 1, k) : k \in 0..Len(f)} : f \in Frames}

\* how the stream ends after its last byte: end of stream, or a transport
\* error (a reset; a transport that itself reports io.ErrUnexpectedEOF)
StreamEnds == {"EOF", "ErrUnexpectedEOF", "ErrReset"}

Running == [kind |-> "running", matched |-> FALSE, err |-> NilErr]

Init ==
    /\ impl \in {"checked", "pooled"}
    /\ stream \in Streams
    /\ streamEnd \in StreamEnds
    /\ consumed = 0
    /\ requests = <<>>
    /\ allocs = <<>>
    /\ pc = "header"
    /\ head = <<>>
    /\ payloadLen = U32(0)
    /\ b = NoMessage
    /\ Parameters = {}
    /\ headerPool = <<>>
    /\ ret = Running
    /\ accessed = {}
    /\ trace = <<>>
    /\ goroutines = <<>>
    /\ buffers = NoBuffers

(* --------------------------- Match, part_000 --------------------------- *)

Return(matched, err) ==
    /\ ret' = [kind |-> "return", matched |-> matched, err |-> err]
    /\ pc' = "done"

Panic ==
    /\ ret' = [kind |-> "panic", matched |-> FALSE, err |-> NilErr]
    /\ pc' = "done"

\* 1. Read Message Length Header
MatchReadHeader ==
    /\ impl = "checked" /\ pc = "header"
    /\ LET rf == ReadFull(U32(initMessageSizeLength)) IN
       /\ consumed' = consumed + rf.n
       /\ requests' = Append(requests, U32(initMessageSizeLength))
       /\ head' = rf.bytes
       /\ IF rf.err # "nil"
          THEN IF IsEOF(rf.err) THEN Return(FALSE, NilErr)
               ELSE Return(FALSE, Errorf("reading message length header", rf.err))
          ELSE IF rf.n < initMessageSizeLength THEN Return(FALSE, NilErr)
          ELSE pc' = "length" /\ ret' = ret
    /\ UNCHANGED <<impl, stream, streamEnd, allocs, payloadLen, b, Parameters,
                   headerPool, accessed, trace, goroutines, buffers>>

\* 2. Parse and Validate Message Length
MatchValidateLength ==
    /\ impl = "checked" /\ pc = "length"
    /\ LET messageLen == Uint32(head)
           pl == U32Sub(messageLen, initMessageSizeLength)
       IN IF U32Lt(messageLen, minMessageLength)
          THEN Return(FALSE, NilErr) /\ payloadLen' = payloadLen
          ELSE /\ payloadLen' = pl
               /\ IF U32Gt(pl, maxStartupPayloadSize) THEN Return(FALSE, NilErr)
                  ELSE IF U32Eq(pl, 0) THEN Return(FALSE, NilErr)
                  ELSE pc' = "payload" /\ ret' = ret
    /\ UNCHANGED <<impl, stream, streamEnd, consumed, requests, allocs, head, b,
                   Parameters, headerPool, accessed, trace,
                   goroutines, buffers>>

\* 3. Read the Message Payload
MatchReadPayload ==
    /\ impl = "checked" /\ pc = "payload"
    /\ LET rf == ReadFull(payloadLen) IN
       /\ allocs' = Append(allocs, payloadLen)
       /\ consumed' = consumed + rf.n
       /\ requests' = Append(requests, payloadLen)
       /\ IF rf.err # "nil"
          THEN /\ b' = b
               /\ IF IsEOF(rf.err) THEN Return(FALSE, NilErr)
                  ELSE Return(FALSE, Errorf("reading message payload", rf.err))
          ELSE IF rf.n < U32Val(payloadLen) THEN Return(FALSE, NilErr) /\ b' = b
          ELSE /\ b' = newMessageFromBytes(rf.bytes)
               /\ pc' = "code" /\ ret' = ret
    /\ UNCHANGED <<impl, stream, streamEnd, head, payloadLen, Parameters, headerPool,
                   accessed, trace, goroutines, buffers>>

\* 4.-6. Read the code; SSLRequest; protocol version; minimum payload size
MatchReadCode ==
    /\ impl = "checked" /\ pc = "code"
    /\ LET ru == ReadUint32(b)
           code == ru.r
           majorVersion == code[1]
       IN /\ b' = ru.b
          /\ accessed' = accessed \cup ru.acc
          /\ IF ru.b.err # "nil" THEN Return(FALSE, NilErr)
             ELSE IF U32Eq(code, sslRequestCode) /\ U32Eq(payloadLen, 4)
             THEN Return(TRUE, NilErr)
             ELSE IF majorVersion < 3 THEN Return(FALSE, NilErr)
             ELSE IF U32Lt(payloadLen, minStartupPayloadLength)
             THEN Return(FALSE, NilErr)
             ELSE pc' = "key" /\ ret' = ret
    /\ UNCHANGED <<impl, stream, streamEnd, consumed, requests, allocs, head,
                   payloadLen, Parameters, headerPool, trace,
                   goroutines, buffers>>

\* the parameter loop from its top to just before the value is read
MatchReadKey ==
    /\ impl = "checked" /\ pc = "key"
    /\ IF b.err # "nil"
       THEN Return(FALSE, NilErr) /\ b' = b /\ accessed' = accessed
       ELSE IF b.offset = Len(b.data)
       THEN Return(FALSE, NilErr) /\ b' = b /\ accessed' = accessed
       ELSE LET rs == ReadString(b)
                m == rs.b
            IN
            /\ b' = m
            \* the terminator test reads data[offset-1] once the two offset
            \* comparisons before it hold
            /\ accessed' = accessed \cup rs.acc \cup
                   (IF /\ m.err = "nil"
                       /\ m.offset > 0
                       /\ m.offset - 1 = m.lastReadStringStartOffset
                    THEN {m.offset - 1} ELSE {})
            /\ IF m.err # "nil" THEN Return(FALSE, NilErr)
               ELSE IF /\ m.offset > 0
                       /\ m.offset - 1 = m.lastReadStringStartOffset
                       /\ m.data[m.offset] = 0
               THEN IF m.offset = Len(m.data) THEN Return(TRUE, NilErr)
                    ELSE Return(FALSE, NilErr)
               ELSE IF m.err # "nil" THEN Return(FALSE, NilErr)
               ELSE IF m.offset >= Len(m.data) THEN Return(FALSE, NilErr)
               ELSE pc' = "value" /\ ret' = ret
    /\ UNCHANGED <<impl, stream, streamEnd, consumed, requests, allocs, head,
                   payloadLen, Parameters, headerPool, trace,
                   goroutines, buffers>>

\* the value read that ends a loop iteration
MatchReadValue ==
    /\ impl = "checked" /\ pc = "value"
    /\ LET rs == ReadString(b)
           m == rs.b
       IN
       /\ b' = m
       /\ accessed' = accessed \cup rs.acc
       /\ IF m.err # "nil" THEN Return(FALSE, NilErr)
          ELSE pc' = "key" /\ ret' = ret
    /\ UNCHANGED <<impl, stream, streamEnd, consumed, requests, allocs, head,
                   payloadLen, Parameters, headerPool, trace,
                   goroutines, buffers>>

(* --------------------------- Match, matcher.go ------------------------- *)

\* headerPool.New
headerPoolNew == <<0, 0, 0, 0>>

\* the buffer after io.ReadFull wrote its bytes over the front of it
Overwrite(buf, bytes) ==
    [i \in 1..Len(buf) |-> IF i <= Len(bytes) THEN bytes[i] ELSE buf[i]]

\* headerPool.Get, io.ReadFull(cx, header), and the error exit
PooledReadHeader ==
    /\ impl = "pooled" /\ pc = "header"
    /\ \E i \in 0..Len(headerPool) :
        LET got == IF i = 0 THEN headerPoolNew ELSE headerPool[i]
            rest == IF i = 0 THEN headerPool
                    ELSE SubSeq(headerPool, 1, i - 1)
                             \o SubSeq(headerPool, i + 1, Len(headerPool))
            rf == ReadFull(U32(initMessageSizeLength))
            header == Overwrite(got, rf.bytes)
        IN /\ consumed' = consumed + rf.n
           /\ requests' = Append(requests, U32(initMessageSizeLength))
           /\ head' = header
           /\ IF rf.err # "nil"
              THEN /\ headerPool' = Append(rest, header)
                   /\ Return(FALSE, Errorf("", rf.err))
              ELSE /\ headerPool' = rest
                   /\ pc' = "payload" /\ ret' = ret
    /\ UNCHANGED <<impl, stream, streamEnd, allocs, payloadLen, b, Parameters,
                   accessed, trace, goroutines, buffers>>

\* messageLength, headerPool.Put, make, io.ReadFull(cx, data)
PooledReadPayload ==
    /\ impl = "pooled" /\ pc = "payload"
    /\ LET messageLength == U32Sub(Uint32(head), initMessageSizeLength)
           rf == ReadFull(messageLength)
       IN /\ payloadLen' = messageLength
          /\ headerPool' = Append(headerPool, head)
          /\ allocs' = Append(allocs, messageLength)
          /\ consumed' = consumed + rf.n
          /\ requests' = IF U32Eq(messageLength, 0) THEN requests
                         ELSE Append(requests, messageLength)
          /\ IF rf.err # "nil"
             THEN Return(FALSE, Errorf("", rf.err)) /\ b' = b
             ELSE /\ b' = newMessageFromBytes(rf.bytes)
                  /\ pc' = "code" /\ ret' = ret
    /\ UNCHANGED <<impl, stream, streamEnd, head, Parameters, accessed, trace,
                   goroutines, buffers>>

\* code := b.ReadUint32(), SSLRequest and protocol version
PooledReadCode ==
    /\ impl = "pooled" /\ pc = "code"
    /\ LET ru == PooledReadUint32(b)
           code == ru.r
           majorVersion == code[1]
       IN /\ b' = ru.b
          /\ accessed' = accessed \cup ru.acc
          /\ IF ru.panic THEN Panic
             ELSE IF U32Eq(code, sslRequestCode) THEN Return(TRUE, NilErr)
             ELSE IF majorVersion < 3
             THEN Return(FALSE, Errorf("pg protocol < 3.0 is not supported", "errors.New"))
             ELSE pc' = "key" /\ ret' = ret
    /\ UNCHANGED <<impl, stream, streamEnd, consumed, requests, allocs, head,
                   payloadLen, Parameters, headerPool, trace,
                   goroutines, buffers>>

\* one iteration of "for { k := b.ReadString(); if k == "" { break };
\* startup.Parameters[k] = b.ReadString() }" and the return after the loop
PooledReadParameter ==
    /\ impl = "pooled" /\ pc = "key"
    /\ LET rk == PooledReadString(b)
           rv == PooledReadString(rk.b)
       IN IF rk.panic
          THEN /\ Panic /\ b' = b /\ Parameters' = Parameters
               /\ accessed' = accessed \cup rk.acc
          ELSE IF rk.r = <<>>
          THEN /\ Return(Cardinality(Parameters) > 0, NilErr)
               /\ b' = rk.b /\ Parameters' = Parameters
               /\ accessed' = accessed \cup rk.acc
          ELSE IF rv.panic
          THEN /\ Panic /\ b' = rk.b /\ Parameters' = Parameters
               /\ accessed' = accessed \cup rk.acc \cup rv.acc
          ELSE /\ Parameters' = {p \in Parameters : p[1] # rk.r} \cup {<<rk.r, rv.r>>}
               /\ b' = rv.b
               /\ accessed' = accessed \cup rk.acc \cup rv.acc
               /\ pc' = "key" /\ ret' = ret
    /\ UNCHANGED <<impl, stream, streamEnd, consumed, requests, allocs, head,
                   payloadLen, headerPool, trace, goroutines, buffers>>

\* the steps of Match in part_000
NextChecked ==
    \/ MatchReadHeader
    \/ MatchValidateLength
    \/ MatchReadPayload
    \/ MatchReadCode
    \/ MatchReadKey
    \/ MatchReadValue

\* the steps of Match in matcher.go
NextPooled ==
    \/ PooledReadHeader
    \/ PooledReadPayload
    \/ PooledReadCode
    \/ PooledReadParameter

Next ==
    \/ MatchReadHeader
    \/ MatchValidateLength
    \/ MatchReadPayload
    \/ MatchReadCode
    \/ MatchReadKey
    \/ MatchReadValue
    \/ PooledReadHeader
    \/ PooledReadPayload
    \/ PooledReadCode
    \/ PooledReadParameter

Spec == Init /\ [][Next]_vars

\* the call of part_000 alone, and the call of matcher.go alone
InitChecked == Init /\ impl = "checked"

SpecChecked == InitChecked /\ [][NextChecked]_vars

InitPooled == Init /\ impl = "pooled"

SpecPooled == InitPooled /\ [][NextPooled]_vars

(* ---------------------------- cursor driver ---------------------------- *)
(* Any sequence of ReadUint32 and ReadString calls on one cursor, for the  *)
(* cursor of part_000 (impl = "checked") and of matcher.go ("pooled").     *)

\* the buffers a cursor is created over
Buffers == SeqsUpTo(ParamByte, MaxParamBytes)

InitCursor ==
    /\ impl \in {"checked", "pooled"}
    /\ b \in {newMessageFromBytes(d) : d \in Buffers}
    /\ pc = "cursor"
    /\ stream = <<>>
    /\ streamEnd = "EOF"
    /\ consumed = 0
    /\ requests = <<>>
    /\ allocs = <<>>
    /\ head = <<>>
    /\ payloadLen = U32(0)
    /\ Parameters = {}
    /\ headerPool = <<>>
    /\ ret = Running
    /\ accessed = {}
    /\ trace = <<>>
    /\ goroutines = <<>>
    /\ buffers = NoBuffers

\* the record of one call: the cursor before and after it, and its result
Call(op, m, res) == [op |-> op, before |-> m, after |-> res.b, r |-> res.r]

CursorReadUint32 ==
    /\ impl = "checked" /\ pc = "cursor" /\ Len(trace) < MaxCalls
    /\ LET res == ReadUint32(b) IN
       /\ b' = res.b
       /\ accessed' = accessed \cup res.acc
       /\ trace' = Append(trace, Call("ReadUint32", b, res))
    /\ UNCHANGED <<impl, stream, streamEnd, consumed, requests, allocs, pc, head,
                   payloadLen, Parameters, headerPool, ret,
                   goroutines, buffers>>

CursorReadString ==
    /\ impl = "checked" /\ pc = "cursor" /\ Len(trace) < MaxCalls
    /\ LET res == ReadString(b) IN
       /\ b' = res.b
       /\ accessed' = accessed \cup res.acc
       /\ trace' = Append(trace, Call("ReadString", b, res))
    /\ UNCHANGED <<impl, stream, streamEnd, consumed, requests, allocs, pc, head,
                   payloadLen, Parameters, headerPool, ret,
                   goroutines, buffers>>

CursorPooledReadUint32 ==
    /\ impl = "pooled" /\ pc = "cursor" /\ Len(trace) < MaxCalls
    /\ LET res == PooledReadUint32(b) IN
       /\ b' = res.b
       /\ accessed' = accessed \cup res.acc
       /\ trace' = Append(trace, Call("ReadUint32", b, res))
       /\ IF res.panic THEN Panic ELSE UNCHANGED <<pc, ret>>
    /\ UNCHANGED <<impl, stream, streamEnd, consumed, requests, allocs, head,
                   payloadLen, Parameters, headerPool, goroutines, buffers>>

CursorPooledReadString ==
    /\ impl = "pooled" /\ pc = "cursor" /\ Len(trace) < MaxCalls
    /\ LET res == PooledReadString(b) IN
       /\ b' = res.b
       /\ accessed' = accessed \cup res.acc
       /\ trace' = Append(trace, Call("ReadString", b, res))
       /\ IF res.panic THEN Panic ELSE UNCHANGED <<pc, ret>>
    /\ UNCHANGED <<impl, stream, streamEnd, consumed, requests, allocs, head,
                   payloadLen, Parameters, headerPool, goroutines, buffers>>

NextCursor ==
    \/ CursorReadUint32
    \/ CursorReadString
    \/ CursorPooledReadUint32
    \/ CursorPooledReadString

SpecCursor == InitCursor /\ [][NextCursor]_vars

(* ------------------- concurrent calls, matcher.go ---------------------- *)
(* Several goroutines run Match of matcher.go at once.  They share only    *)
(* headerPool.  A header buffer is identified by its index in              *)
(* buffers.content; buffers.pool lists the buffers headerPool holds.       *)

Goroutines == 1..NumGoroutines

\* what one call is given: a stream and the way it ends
ConcInputs ==
    {<< <<0, 0>>, "EOF" >>,
     << <<0, 0>>, "ErrReset" >>,
     << <<0, 0, 0, 8, 4, 210, 22, 47>>, "EOF" >>,
     << <<0, 0, 0, 12, 0, 3, 0, 0, 97, 0, 97, 0, 0>>, "EOF" >>,
     << <<0, 0, 0, 9, 0, 3, 0, 0, 0>>, "EOF" >>}

\* header bytes an earlier call left in a buffer it returned to the pool
StaleHeaders == {<<0, 0, 0, 4>>, <<0, 0, 0, 8>>}

GoStart(in) ==
    [pc |-> "get", stream |-> in[1], streamEnd |-> in[2], consumed |-> 0,
     headerPtr |-> 0, holds |-> FALSE, gets |-> 0, puts |-> 0,
     misused |-> FALSE, readErr |-> "nil", messageLength |-> U32(0),
     data |-> <<>>, ret |-> Running]

InitPool ==
    /\ impl = "pooled"
    /\ pc = "pool"
    /\ stream = <<>>
    /\ streamEnd = "EOF"
    /\ consumed = 0
    /\ requests = <<>>
    /\ allocs = <<>>
    /\ head = <<>>
    /\ payloadLen = U32(0)
    /\ b = NoMessage
    /\ Parameters = {}
    /\ headerPool = <<>>
    /\ ret = Running
    /\ accessed = {}
    /\ trace = <<>>
    /\ goroutines \in [Goroutines -> {GoStart(in) : in \in ConcInputs}]
    /\ buffers \in {NoBuffers} \cup
                   {[pool |-> <<1>>, content |-> <<h>>] : h \in StaleHeaders}

callVars == <<impl, stream, streamEnd, consumed, requests, allocs, pc, head,
              payloadLen, b, Parameters, headerPool, ret, accessed, trace>>

PanicRet == [kind |-> "panic", matched |-> FALSE, err |-> NilErr]

ReturnRet(matched, err) == [kind |-> "return", matched |-> matched, err |-> err]

\* matcher.go:99-107, the parameter loop and the return after it
RECURSIVE PooledParameters(_, _)
PooledParameters(m, params) ==
    LET rk == PooledReadString(m)
        rv == PooledReadString(rk.b)
    IN IF rk.panic THEN PanicRet
       ELSE IF rk.r = <<>> THEN ReturnRet(Cardinality(params) > 0, NilErr)
       ELSE IF rv.panic THEN PanicRet
       ELSE PooledParameters(rv.b,
                {q \in params : q[1] # rk.r} \cup {<<rk.r, rv.r>>})

\* matcher.go:83-107, Match from the cursor creation to its return
PooledClassify(data) ==
    LET ru == PooledReadUint32(newMessageFromBytes(data))
        code == ru.r
    IN IF ru.panic THEN PanicRet
       ELSE IF U32Eq(code, sslRequestCode) THEN ReturnRet(TRUE, NilErr)
       ELSE IF code[1] < 3
       THEN ReturnRet(FALSE, Errorf("pg protocol < 3.0 is not supported", "errors.New"))
       ELSE PooledParameters(ru.b, {})

\* headerPool.Put(headerPtr)
PoolPut(bufs, id) == [bufs EXCEPT !.pool = Append(@, id)]

\* "err != nil" after io.ReadFull(cx, header), but only when nothing was read
HeaderReadFailedIfEmpty(rf) == rf.err # "nil" /\ rf.n = 0

\* "err != nil" after io.ReadFull(cx, header)
HeaderReadFailed(rf) == rf.err # "nil"

\* headerPtr := headerPool.Get().(*[]byte); header := *headerPtr
\* Get hands out any pooled buffer, or a new one
GoGet(g) ==
    /\ goroutines[g].pc = "get"
    /\ \E i \in 0..Len(buffers.pool) :
         IF i = 0
         THEN /\ buffers' = [buffers EXCEPT !.content = Append(@, headerPoolNew)]
              /\ goroutines' = [goroutines EXCEPT
                    ![g].headerPtr = Len(buffers.content) + 1,
                    ![g].holds = TRUE,
                    ![g].gets = @ + 1,
                    ![g].pc = "readHeader"]
         ELSE /\ buffers' = [buffers EXCEPT !.pool =
                    SubSeq(@, 1, i - 1) \o SubSeq(@, i + 1, Len(@))]
              /\ goroutines' = [goroutines EXCEPT
                    ![g].headerPtr = buffers.pool[i],
                    ![g].holds = TRUE,
                    ![g].gets = @ + 1,
                    ![g].pc = "readHeader"]
    /\ UNCHANGED callVars

\* io.ReadFull(cx, header): writes the bytes read into the buffer
GoReadHeader(g) ==
    /\ goroutines[g].pc = "readHeader"
    /\ LET gr == goroutines[g]
           rf == ReadFullFrom(gr.stream, gr.streamEnd, gr.consumed,
                              U32(initMessageSizeLength))
       IN /\ buffers' = [buffers EXCEPT !.content[gr.headerPtr] =
                            Overwrite(@, rf.bytes)]
          /\ goroutines' = [goroutines EXCEPT
                ![g].consumed = @ + rf.n,
                ![g].readErr = rf.err,
                ![g].misused = @ \/ ~gr.holds,
                ![g].pc = IF HeaderReadFailed(rf) THEN "headerError" ELSE "decode"]
    /\ UNCHANGED callVars

\* the error exit without its headerPool.Put
GoHeaderErrorLeak(g) ==
    /\ goroutines[g].pc = "headerError"
    /\ goroutines' = [goroutines EXCEPT
          ![g].ret = ReturnRet(FALSE, Errorf("", goroutines[g].readErr)),
          ![g].pc = "done"]
    /\ UNCHANGED <<buffers, callVars>>

\* headerPool.Put(headerPtr); return false, err
GoHeaderError(g) ==
    /\ goroutines[g].pc = "headerError"
    /\ buffers' = PoolPut(buffers, goroutines[g].headerPtr)
    /\ goroutines' = [goroutines EXCEPT
          ![g].holds = FALSE,
          ![g].puts = @ + 1,
          ![g].ret = ReturnRet(FALSE, Errorf("", goroutines[g].readErr)),
          ![g].pc = "done"]
    /\ UNCHANGED callVars

\* messageLength := binary.BigEndian.Uint32(header) - initMessageSizeLength
GoDecode(g) ==
    /\ goroutines[g].pc = "decode"
    /\ LET gr == goroutines[g] IN
       goroutines' = [goroutines EXCEPT
          ![g].messageLength =
              U32Sub(Uint32(buffers.content[gr.headerPtr]), initMessageSizeLength),
          ![g].misused = @ \/ ~gr.holds,
          ![g].pc = "put"]
    /\ UNCHANGED <<buffers, callVars>>

\* headerPool.Put(headerPtr) on the way to the payload
GoPut(g) ==
    /\ goroutines[g].pc = "put"
    /\ buffers' = PoolPut(buffers, goroutines[g].headerPtr)
    /\ goroutines' = [goroutines EXCEPT
          ![g].holds = FALSE,
          ![g].puts = @ + 1,
          ![g].pc = "payload"]
    /\ UNCHANGED callVars

\* data := make([]byte, messageLength); io.ReadFull(cx, data)
GoReadPayload(g) ==
    /\ goroutines[g].pc = "payload"
    /\ LET gr == goroutines[g]
           rf == ReadFullFrom(gr.stream, gr.streamEnd, gr.consumed, gr.messageLength)
       IN goroutines' = [goroutines EXCEPT
             ![g].consumed = @ + rf.n,
             ![g].data = IF rf.err = "nil" THEN rf.bytes ELSE @,
             ![g].ret = IF rf.err = "nil" THEN @
                        ELSE ReturnRet(FALSE, Errorf("", rf.err)),
             ![g].pc = IF rf.err = "nil" THEN "classify" ELSE "done"]
    /\ UNCHANGED <<buffers, callVars>>

\* the rest of Match: cursor, code, parameters
GoClassify(g) ==
    /\ goroutines[g].pc = "classify"
    /\ goroutines' = [goroutines EXCEPT
          ![g].ret = PooledClassify(goroutines[g].data),
          ![g].pc = "done"]
    /\ UNCHANGED <<buffers, callVars>>

NextPool ==
    \/ \E g \in Goroutines : GoGet(g)
    \/ \E g \in Goroutines : GoReadHeader(g)
    \/ \E g \in Goroutines : GoHeaderError(g)
    \/ \E g \in Goroutines : GoDecode(g)
    \/ \E g \in Goroutines : GoPut(g)
    \/ \E g \in Goroutines : GoReadPayload(g)
    \/ \E g \in Goroutines : GoClassify(g)

SpecPool == InitPool /\ [][NextPool]_vars

(* ------------------- the wire format, as a reference ------------------- *)

Done == pc = "done"

Matched == ret = [kind |-> "return", matched |-> TRUE, err |-> NilErr]

NonMatch == ret = [kind |-> "return", matched |-> FALSE, err |-> NilErr]

HeaderDelivered == Len(stream) >= 4

\* the declared length L of the header
DeclaredLength == Uint32(SubSeq(stream, 1, 4))

\* the stream delivers the header and all L - 4 >= 4 payload bytes
FrameDelivered ==
    /\ HeaderDelivered
    /\ U32Small(DeclaredLength)
    /\ U32Val(DeclaredLength) >= 8
    /\ Len(stream) >= U32Val(DeclaredLength)

FramePayload == SubSeq(stream, 5, U32Val(DeclaredLength))

FrameMajor == FramePayload[1] * 256 + FramePayload[2]

FrameParams == SubSeq(FramePayload, 5, Len(FramePayload))

\* big-endian 80877103
ProbeBytes == <<4, 210, 22, 47>>

IsProbe == FramePayload = ProbeBytes

\* index of the first null byte of p, 0 when it has none
FirstZero(p) ==
    IF \E i \in 1..Len(p) : p[i] = 0
    THEN CHOOSE i \in 1..Len(p) : p[i] = 0 /\ \A j \in 1..(i - 1) : p[j] # 0
    ELSE 0

\* what is wrong with a parameter area: (key 0 value 0)* 0 with non-empty keys
RECURSIVE ParamDefect(_)
ParamDefect(p) ==
    IF p = <<>> THEN "no list terminator"
    ELSE IF p[1] = 0
    THEN IF Len(p) = 1 THEN "none" ELSE "bytes after the list terminator"
    ELSE LET i == FirstZero(p) IN
         IF i = 0 THEN "key without null"
         ELSE LET q == SubSeq(p, i + 1, Len(p))
                  j == FirstZero(q)
              IN IF j = 0 THEN "value without null"
                 ELSE ParamDefect(SubSeq(q, j + 1, Len(q)))

(* ------------------------------- claims -------------------------------- *)

\* C1: a complete startup frame with major version >= 3 and a well-formed
\* (possibly empty) parameter list makes Match return (true, nil).
C1_ValidStartupMatches ==
    (Done /\ FrameDelivered /\ FrameMajor >= 3 /\ ParamDefect(FrameParams) = "none")
        => Matched

\* C2: the TLS-negotiation probe (length 8, payload the 4 bytes of 80877103)
\* makes Match return (true, nil).
C2_ProbeMatches ==
    (Done /\ Len(stream) >= 8 /\ SubSeq(stream, 1, 8) = <<0, 0, 0, 8>> \o ProbeBytes)
        => Matched

C2_Witness ==
    Done /\ Len(stream) >= 8 /\ SubSeq(stream, 1, 8) = <<0, 0, 0, 8>> \o ProbeBytes
         /\ Matched

\* C3: a frame whose payload starts with the code 80877103 and is not exactly
\* 4 bytes long is rejected with (false, nil), whatever follows the code.
C3_ProbeCodeWrongLengthRejected ==
    (Done /\ FrameDelivered /\ U32Val(DeclaredLength) <= maxStartupPayloadSize + 4
          /\ SubSeq(FramePayload, 1, 4) = ProbeBytes /\ Len(FramePayload) # 4)
        => NonMatch

\* C4: a stream that ends before the 4 header bytes, or after the header and
\* before the L - 4 declared payload bytes, makes Match return (false, nil).
C4_TruncatedIsNonMatch ==
    (Done /\ streamEnd = "EOF"
          /\ \/ Len(stream) < 4
             \/ /\ HeaderDelivered
                /\ ~U32Lt(DeclaredLength, 4)
                /\ U32Gt(DeclaredLength, Len(stream)))
        => NonMatch

\* C5: Match returns a non-nil error only when a stream read failed with an
\* error that is not an end of stream while bytes were still expected, and
\* then it returns (false, that error); it never returns true with an error.
C5_ErrorOnlyOnTransportFailure ==
    (Done /\ ret.kind = "return" /\ ret.err # NilErr)
        => /\ ~ret.matched
           /\ ret.err.cause = streamEnd
           /\ ~IsEOF(streamEnd)
           /\ consumed = Len(stream)
           /\ requests # <<>>

\* C6: a declared payload length above 16384 makes Match return (false, nil)
\* with only the 4 header bytes consumed, nothing allocated, no payload read.
C6_OversizedNotRead ==
    (Done /\ HeaderDelivered /\ U32Gt(DeclaredLength, maxStartupPayloadSize + 4))
        => /\ NonMatch
           /\ consumed = 4
           /\ allocs = <<>>
           /\ Len(requests) = 1

\* C7: a declared length L < 8 (L < 4 included) makes Match return
\* (false, nil) without reading any payload.
C7_ShortLengthIsNonMatch ==
    (Done /\ HeaderDelivered /\ U32Lt(DeclaredLength, 8))
        => /\ NonMatch
           /\ consumed = 4
           /\ Len(requests) = 1

\* C8: a complete frame that is not the TLS probe and whose major version is
\* below 3 makes Match return (false, nil), whatever the parameter bytes.
C8_OldVersionIsNonMatch ==
    (Done /\ FrameDelivered /\ ~IsProbe /\ FrameMajor < 3) => NonMatch

\* C9: a complete startup frame with major version >= 3 whose parameter bytes
\* lack a key's or value's null, lack the list terminator, or continue after
\* it, makes Match return (false, nil), without panic or error.
C9_MalformedParamsIsNonMatch ==
    (Done /\ FrameDelivered /\ ~IsProbe /\ FrameMajor >= 3
          /\ ParamDefect(FrameParams) # "none")
        => NonMatch

\* r + 4 = L in uint32 arithmetic: r is the declared payload length
IsDeclaredPayload(r, L) ==
    L = IF r[2] + 4 < Half THEN <<r[1], r[2] + 4>>
        ELSE <<(r[1] + 1) % Half, r[2] + 4 - Half>>

\* C10: Match requests the 4 header bytes, then at most once the declared
\* payload length L - 4 (in uint32 arithmetic), and nothing else; it consumes
\* no more than it requested, and exactly L bytes whenever it returns
\* (true, nil).
C10_ReadsOnlyTheFrame ==
    /\ Len(requests) <= 2
    /\ requests # <<>> => requests[1] = U32(4)
    /\ Len(requests) = 2 =>
          /\ IsDeclaredPayload(requests[2], DeclaredLength)
          /\ U32Small(requests[2]) => consumed <= 4 + U32Val(requests[2])
    /\ Len(requests) <= 1 => consumed <= 4
    /\ Matched => consumed = U32Val(DeclaredLength)

C10_Witness ==
    Done /\ Matched /\ Len(requests) = 2 /\ Len(stream) > consumed
         /\ Len(FrameParams) > 0

\* C11: for a complete frame, Match returns (true, nil) exactly when the
\* payload is the 4-byte code 80877103, or a 4-byte version with major >= 3
\* followed by a well-formed parameter list whose terminator is the last
\* payload byte; for every other payload it returns (false, nil).
C11_MatchIffWellFormed ==
    (Done /\ FrameDelivered)
        => IF \/ IsProbe
              \/ FrameMajor >= 3 /\ ParamDefect(FrameParams) = "none"
           THEN Matched
           ELSE NonMatch

\* the zero value a call returns: 0 for ReadUint32, "" for ReadString
ZeroValue(op) == IF op = "ReadUint32" THEN U32(0) ELSE <<>>

\* C12: across any sequence of ReadUint32 and ReadString calls on one cursor
\* the offset never decreases, and once the failure flag is set it is never
\* cleared: every later call returns the zero value and leaves the cursor
\* as it was.
C12_OffsetMonotoneFailureSticky ==
    \A i \in 1..Len(trace) :
        /\ trace[i].after.offset >= trace[i].before.offset
        /\ \A j \in (i + 1)..Len(trace) :
              /\ trace[j].after.offset >= trace[i].after.offset
              /\ trace[i].after.err # "nil" =>
                    /\ trace[j].after = trace[i].after
                    /\ trace[j].r = ZeroValue(trace[j].op)

C12_Witness ==
    \E i \in 1..Len(trace) : \E j \in (i + 1)..Len(trace) :
        /\ trace[i].before.err = "nil"
        /\ trace[i].after.err # "nil"
        /\ trace[j].op = "ReadString"
        /\ trace[j].after.offset = Len(b.data)

\* C13: in every state of a classification the cursor offset is at most
\* len(payload) and every index read from the payload is below len(payload):
\* no read is out of bounds (none panics), and once the cursor has failed the
\* call has returned, so no buffer access follows a structural violation.
C13_NoOutOfBoundsAccess ==
    /\ b.offset <= Len(b.data)
    /\ \A i \in accessed : 0 <= i /\ i < Len(b.data)
    /\ ret.kind # "panic"
    /\ b.err # "nil" => Done

\* a finished single call of matcher.go that created its cursor returned
\* what PooledClassify computes from the payload
PooledClassifyAgrees ==
    (impl = "pooled" /\ Done /\ pc # "pool" /\ ret.err.cause \in {"nil", "errors.New"})
        => ret = PooledClassify(b.data)

Held(g) == goroutines[g].holds

\* C14: with interleaved Match calls no header buffer is held by two calls
\* at once (nor held while it is in the pool), no call reads or writes its
\* header buffer after releasing it, and every call that has returned,
\* through the success path or the header-read error path, has released
\* the one buffer it acquired exactly once.
C14_PoolExclusiveAndReleased ==
    /\ \A g1 \in DOMAIN goroutines : \A g2 \in DOMAIN goroutines :
          (g1 # g2 /\ Held(g1) /\ Held(g2))
              => goroutines[g1].headerPtr # goroutines[g2].headerPtr
    /\ \A g \in DOMAIN goroutines :
          /\ Held(g) => \A i \in 1..Len(buffers.pool) :
                            buffers.pool[i] # goroutines[g].headerPtr
          /\ ~goroutines[g].misused
          /\ goroutines[g].puts <= goroutines[g].gets
          /\ goroutines[g].gets <= 1
          /\ goroutines[g].pc = "done" =>
                /\ goroutines[g].gets = 1
                /\ goroutines[g].puts = 1
                /\ ~Held(g)
    /\ \A i \in 1..Len(buffers.pool) : \A j \in 1..Len(buffers.pool) :
          i # j => buffers.pool[i] # buffers.pool[j]

\* both exits were taken, and one call reused the buffer of the other
C14_Witness ==
    /\ \A g \in DOMAIN goroutines : goroutines[g].pc = "done"
    /\ \E g1 \in DOMAIN goroutines : \E g2 \in DOMAIN goroutines :
          /\ goroutines[g1].ret.err # NilErr /\ goroutines[g1].consumed < 4
          /\ goroutines[g2].ret.matched
          /\ goroutines[g1].headerPtr = goroutines[g2].headerPtr

\* C17: the outcome of a Match call depends only on the stream it is given:
\* two finished calls with identical streams have the same outcome, whatever
\* other calls ran before or beside them and whatever buffer the pool
\* handed to each.
C17_OutcomeDependsOnOwnStream ==
    \A g1 \in DOMAIN goroutines : \A g2 \in DOMAIN goroutines :
        (/\ goroutines[g1].pc = "done" /\ goroutines[g2].pc = "done"
         /\ goroutines[g1].stream = goroutines[g2].stream
         /\ goroutines[g1].streamEnd = goroutines[g2].streamEnd)
            => goroutines[g1].ret = goroutines[g2].ret

\* two finished calls on the same short stream whose header buffers differ
\* in the bytes an earlier call left in them
C17_Witness ==
    \E g1 \in DOMAIN goroutines : \E g2 \in DOMAIN goroutines :
        /\ g1 # g2
        /\ goroutines[g1].pc = "done" /\ goroutines[g2].pc = "done"
        /\ goroutines[g1].stream = goroutines[g2].stream
        /\ goroutines[g1].streamEnd = goroutines[g2].streamEnd
        /\ goroutines[g1].headerPtr # goroutines[g2].headerPtr
        /\ buffers.content[goroutines[g1].headerPtr]
               # buffers.content[goroutines[g2].headerPtr]

\* C15: when the code classifier starts (the cursor has been created and
\* the code has not been read), the payload length equals the declared
\* length minus 4 and lies in 4..maxStartupPayloadSize, and the initial
\* ReadUint32 does not fail: it neither sets the failure flag, which is what
\* the defensive branch after it tests, nor panics.
C15_ClassifierStartsOnFullPayload ==
    /\ pc = "code" =>
          /\ HeaderDelivered
          /\ DeclaredLength = U32(Len(b.data) + initMessageSizeLength)
          /\ Len(b.data) >= 4
          /\ Len(b.data) <= maxStartupPayloadSize
    /\ b.err # "readUint32: unexpected EOF"
    /\ ret.kind = "panic" => b.offset >= 4

InWalk(p) == p \in {"key", "value"}

\* C16: the parameter walk terminates: every step of it either returns
\* from Match or leaves the walk running with a strictly larger cursor
\* offset that is still within the payload, so that the number of steps is
\* bounded by the payload length.
C16_WalkReturnsOrAdvances ==
    [][InWalk(pc) =>
          \/ pc' = "done" /\ ret'.kind = "return"
          \/ InWalk(pc') /\ b'.offset > b.offset /\ b'.offset <= Len(b'.data)]_vars

\* the bytes of data from 0-based index from up to, not including, to
Slice(data, from, to) == SubSeq(data, from + 1, to)

\* the 0-based indices at or after from where data holds a null byte
NullsFrom(data, from) == {e \in from..(Len(data) - 1) : data[e + 1] = 0}

\* a call of ReadString on a cursor that has not failed and whose offset is
\* below the buffer length
ReadStringInBuffer(c) ==
    /\ c.op = "ReadString"
    /\ c.before.err = "nil"
    /\ c.before.offset < Len(c.before.data)

\* C18: ReadString on a non-failed cursor with offset < len(buffer):
\* without a null byte at or after offset it sets the failure flag, returns
\* buffer[offset:len] and leaves offset = len; with the first such null at
\* index end it returns buffer[offset:end], leaves offset = end + 1 and
\* sets no failure.
C18_ReadStringResult ==
    \A i \in 1..Len(trace) :
        LET c == trace[i]
            data == c.before.data
            offset == c.before.offset
            nulls == NullsFrom(data, offset)
        IN ReadStringInBuffer(c) =>
              IF nulls = {}
              THEN /\ c.after.err # "nil"
                   /\ c.r = Slice(data, offset, Len(data))
                   /\ c.after.offset = Len(data)
              ELSE LET end == CHOOSE e \in nulls : \A f \in nulls : e <= f
                   IN /\ c.after.err = "nil"
                      /\ c.r = Slice(data, offset, end)
                      /\ c.after.offset = end + 1

\* the same, for the cursor of part_000 alone
C18_CheckedCursor == impl = "checked" => C18_ReadStringResult

====
